---- MODULE Spec2Model ----
(***************************************************************************)
(* CatGPT: the Telegram command router (catbot/bot.py, class CatBot) and   *)
(* the OpenAI facade (catbot/ai.py, class Catifier).                       *)
(*                                                                         *)
(* Texts are sequences of one-character strings, so that str.split and     *)
(* re.search are computed character by character.  Each handler invocation *)
(* is a task; a task's step runs from one await to the next, and steps of  *)
(* different tasks interleave.  Every call to an external service either   *)
(* returns or raises.                                                      *)
(***************************************************************************)
EXTENDS Integers, Sequences, FiniteSets, TLC

\* Number of handler invocations that may be in flight at the same time.
NumTasks == 2

Tasks == 1..NumTasks

\* ------------------------------------------------------------------ texts

UpperLetters == <<"A", "B", "C", "D", "E", "F", "G", "H", "I", "J", "K", "L", "M", "N", "O", "P", "Q", "R", "S", "T", "U", "V", "W", "X", "Y", "Z">>
LowerLetters == <<"a", "b", "c", "d", "e", "f", "g", "h", "i", "j", "k", "l", "m", "n", "o", "p", "q", "r", "s", "t", "u", "v", "w", "x", "y", "z">>
Digits == <<"0", "1", "2", "3", "4", "5", "6", "7", "8", "9">>

Range(s) == {s[i] : i \in 1..Len(s)}

\* \w of Python's re module, restricted to ASCII.
WordChars == Range(UpperLetters) \cup Range(LowerLetters) \cup Range(Digits) \cup {"_"}

\* Case folding applied by re.IGNORECASE to one character.
Lower(c) ==
    IF c \in Range(UpperLetters)
    THEN LowerLetters[CHOOSE i \in 1..Len(UpperLetters) : UpperLetters[i] = c]
    ELSE c

\* The handles of the alternation in the pattern of CatBot.reply.
Handles == {<<"C", "a", "t", "G", "P", "T">>, <<"J", "i", "n", "x", "t", "h", "e", "c", "a", "t", "b", "o", "t">>}

\* The same pattern compiled without re.IGNORECASE.
MatchesAtCaseSensitive(text, i) ==
    /\ text[i] = "@"
    /\ \E h \in Handles :
          /\ i + Len(h) <= Len(text)
          /\ \A k \in 1..Len(h) : text[i + k] = h[k]
          /\ \/ i + Len(h) = Len(text)
             \/ text[i + Len(h) + 1] \notin WordChars

\* The pattern @(?:CatGPT|Jinxthecatbot)\b matches at index i of text: "@",
\* then a handle compared under IGNORECASE, then a word boundary, which after
\* the handle's last letter is the end of the text or a non-word character.
MatchesAt(text, i) ==
    /\ text[i] = "@"
    /\ \E h \in Handles :
          /\ i + Len(h) <= Len(text)
          /\ \A k \in 1..Len(h) : Lower(text[i + k]) = Lower(h[k])
          /\ \/ i + Len(h) = Len(text)
             \/ text[i + Len(h) + 1] \notin WordChars

\* re.search(r"@(?:CatGPT|Jinxthecatbot)\b", message_text, re.IGNORECASE)
ReSearchMention(text) == \E i \in 1..Len(text) : MatchesAt(text, i)

\* message.split(' ', 1): cut at the first space character, if there is one.
SplitSpaceOnce(message) ==
    IF \E i \in 1..Len(message) : message[i] = " "
    THEN LET i == CHOOSE j \in 1..Len(message) :
                      /\ message[j] = " "
                      /\ \A k \in 1..(j - 1) : message[k] # " "
         IN  <<SubSeq(message, 1, i - 1), SubSeq(message, i + 1, Len(message))>>
    ELSE <<message>>

\* Lines 36-40 of Catifier.catify: the text after the first space, else "".
CatifyPayload(message) ==
    LET message_parts == SplitSpaceOnce(message)
    IN  IF Len(message_parts) > 1 THEN message_parts[2] ELSE <<>>

\* ------------------------------------------------------------- constants

PersonaContent == <<"Y", "o", "u", " ", "m", "i", "m", "i", "c", "k", " ", "a", " ", "c", "a", "t", " ", "a", "n", "d", " ", "t", "r", "y", " ", "t", "o", " ", "r", "e", "p", "h", "r", "a", "s", "e", " ", "e", "v", "e", "r", "y", "t", "h", "i", "n", "g", " ", "u", "s", "i", "n", "g", " ", "c", "a", "t", "-", "r", "e", "l", "a", "t", "e", "d", " ", "a", "n", "a", "l", "o", "g", "i", "e", "s", " ", "a", "n", "d", " ", "p", "u", "n", "s">>

\* self.cat_config as built by Catifier.__init__.
CatConfigInit == [role |-> "system", content |-> PersonaContent]

CatifyInstruction == <<"P", "l", "e", "a", "s", "e", " ", "t", "u", "r", "n", " ", "t", "h", "e", " ", "f", "o", "l", "l", "o", "w", "i", "n", "g", " ", "t", "e", "x", "t", " ", "i", "n", "t", "o", " ", "a", " ", "c", "a", "t", " ", "t", "e", "x", "t", ".">>

InlineTitle == <<"A", "s", "k", " ", "C", "a", "t", "G", "P", "T">>

ImagePrefix == <<"L", "o", "o", "k", " ", "a", "t", " ", "t", "h", "i", "s", " ", "i", "m", "a", "g", "e", ":", " ">>

IMAGE_SIZE == <<"5", "1", "2", "x", "5", "1", "2">>

StartText == <<"H", "e", "l", "l", "o", " ", "t", "h", "e", "r", "e", ",", " ", "I", "'", "m", " ", "a", " ", "c", "o", "o", "l", " ", "c", "a", "t", " ", "A", "I", " ", "a", "s", "s", "i", "s", "t", "a", "n", "t", ",", " ", "h", "e", "r", "e", " ", "t", "o", " ", "h", "e", "l", "p", " ", "y", "o", "u", " ", "o", "u", "t", "!", " ", "I", "'", "m", " ", "n", "o", "t", " ", "l", "i", "o", "n", " ", "w", "h", "e", "n", " ", "I", " ", "s", "a", "y", " ", "t", "h", "a", "t", " ", "I", "'", "m", " ", "r", "e", "a", "d", "y", " ", "t", "o", " ", "p", "o", "u", "n", "c", "e", " ", "o", "n", " ", "a", "n", "y", " ", "t", "a", "s", "k", " ", "y", "o", "u", " ", "m", "a", "y", " ", "h", "a", "v", "e", " ", "f", "o", "r", " ", "m", "e", "!">>

HelpText == <<"H", "e", "l", "p", " ", "m", "e", "!">>

\* ---------------------------------------------------------------- inputs

Users == {"alice", "bob"}

\* Texts of non-command messages.
PlainTexts == {
    <<"h", "e", "y", " ", "@", "J", "i", "n", "x", "t", "h", "e", "c", "a", "t", "b", "o", "t", " ", "w", "h", "a", "t", "'", "s", " ", "u", "p">>,
    <<"h", "e", "y", " ", "t", "h", "e", "r", "e">>,
    <<"@", "c", "a", "t", "g", "p", "t">>,
    <<"@", "C", "a", "t", "G", "P", "T", "s", " ", "h", "i">>,
    <<"x", "@", "C", "A", "T", "G", "P", "T", "!">> }

\* Texts of command messages.
CommandTexts == {
    <<"/", "c", "a", "t", "i", "f", "y", " ", "h", "e", "l", "l", "o", " ", "w", "o", "r", "l", "d">>,
    <<"/", "c", "a", "t", "i", "f", "y">>,
    <<"/", "c", "a", "t", "i", "f", "y", " ", " ", "h", "i">>,
    <<"/", "c", "a", "t", "i", "f", "y", "\n", "h", "i">>,
    <<"/", "i", "m", "a", "g", "e", " ", "c", "a", "t">>,
    <<"/", "s", "t", "a", "r", "t">>,
    <<"/", "h", "e", "l", "p">> }

Queries == { <<>>, <<"p", "u", "r", "r">> }

FileIds == {"f1", "f2"}

\* What the completion API, the image API and the speech-to-text API return.
Answers == { <<"m", "e", "o", "w">> }
ImageUrls == { <<"h", "t", "t", "p", ":", "/", "/", "i", "/", "1">> }
Transcript(file_id) == IF file_id = "f1" THEN <<"h", "i", " ", "c", "a", "t">> ELSE <<"p", "u", "r", "r">>

None == "None"

\* An update as the handlers read it: update.message.text,
\* update.message.from_user.username, update.message.voice.file_id (None for
\* an audio attachment), update.inline_query.query.
Updates ==
    [type : {"text"}, text : PlainTexts \cup CommandTexts, user : Users]
    \cup [type : {"voice"}, file_id : FileIds, user : Users]
    \cup [type : {"audio"}, file_id : {None}, user : Users]
    \cup [type : {"inline"}, query : Queries, user : Users]

\* The command name of a text: the word characters that follow a leading "/".
RECURSIVE WordPrefix(_)
WordPrefix(s) ==
    IF s = <<>> \/ Head(s) \notin WordChars THEN <<>>
    ELSE <<Head(s)>> \o WordPrefix(Tail(s))

IsCommand(text) == text # <<>> /\ Head(text) = "/" /\ WordPrefix(Tail(text)) # <<>>

CommandName(text) == WordPrefix(Tail(text))

\* The handler CatBot.run registers for an update; "none" when no handler
\* matches.
Route(u) ==
    IF u.type = "inline" THEN "inline_query"
    ELSE IF u.type \in {"voice", "audio"} THEN "voice_handler"
    ELSE IF ~IsCommand(u.text) THEN "reply"
    ELSE IF CommandName(u.text) = <<"s", "t", "a", "r", "t">> THEN "start"
    ELSE IF CommandName(u.text) = <<"c", "a", "t", "i", "f", "y">> THEN "catify"
    ELSE IF CommandName(u.text) = <<"i", "m", "a", "g", "e">> THEN "generate_image"
    ELSE IF CommandName(u.text) = <<"h", "e", "l", "p">> THEN "help"
    ELSE "none"

\* ----------------------------------------------------------------- state

Paths == FileIds \X {"ogg", "mp3"}

NoFile == [exists |-> FALSE, owner |-> 0, audio |-> None]

NoUpdate == [type |-> "none"]

ThumbUrl == "https://user-images.githubusercontent.com/13839523/227260331-764d699a-e99f-4920-9b03-6b2bae6e0fda.png"

VARIABLES
    pc,          \* pc[t]: the await task t is suspended at, "idle" or "done"
    kind,        \* kind[t]: the handler task t runs
    upd,         \* upd[t]: the update task t was dispatched with
    trace,       \* trace[t]: log records and external calls of task t, in order
    outcome,     \* outcome[t]: "running", "returned" or "raised"
    handle,      \* handle[t]: the audio read through audio_file of task t
    resp,        \* resp[t]: the text of the send_message call in flight
    fs,          \* fs[p]: the file at path p of the working directory
    cat_config   \* Catifier.cat_config

vars == <<pc, kind, upd, trace, outcome, handle, resp, fs, cat_config>>

Event(e, a) == [ev |-> e, arg |-> a]

Init ==
    /\ pc = [t \in Tasks |-> "idle"]
    /\ kind = [t \in Tasks |-> "none"]
    /\ upd = [t \in Tasks |-> NoUpdate]
    /\ trace = [t \in Tasks |-> <<>>]
    /\ outcome = [t \in Tasks |-> "none"]
    /\ handle = [t \in Tasks |-> None]
    /\ resp = [t \in Tasks |-> <<>>]
    /\ fs = [p \in Paths |-> NoFile]
    /\ cat_config = CatConfigInit

\* The files task t created no longer belong to a running invocation.
Retire(f, t) ==
    [p \in Paths |-> IF f[p].exists /\ f[p].owner = t
                     THEN [f[p] EXCEPT !.owner = 0] ELSE f[p]]

\* Task t leaves its handler, by return or by an exception that propagates
\* to the caller: no handler has a try block.
Exit(t, how, tr, f) ==
    /\ pc' = [pc EXCEPT ![t] = "done"]
    /\ outcome' = [outcome EXCEPT ![t] = how]
    /\ trace' = [trace EXCEPT ![t] = tr]
    /\ fs' = Retire(f, t)
    /\ UNCHANGED <<kind, upd, handle, resp, cat_config>>

\* Task t suspends at an await.
Suspend(t, at, tr) ==
    /\ pc' = [pc EXCEPT ![t] = at]
    /\ trace' = [trace EXCEPT ![t] = tr]
    /\ UNCHANGED <<kind, upd, outcome, cat_config>>

\* The application hands an update of U to the handler registered for it.
Deliver(t, U) ==
    /\ pc[t] \in {"idle", "done"}
    /\ \E u \in U :
          /\ Route(u) # "none"
          /\ upd' = [upd EXCEPT ![t] = u]
          /\ kind' = [kind EXCEPT ![t] = Route(u)]
    /\ pc' = [pc EXCEPT ![t] = "start"]
    /\ trace' = [trace EXCEPT ![t] = <<>>]
    /\ outcome' = [outcome EXCEPT ![t] = "running"]
    /\ handle' = [handle EXCEPT ![t] = None]
    /\ resp' = [resp EXCEPT ![t] = <<>>]
    /\ UNCHANGED <<fs, cat_config>>

Dispatch(t) == Deliver(t, Updates)

\* The updates the filter VOICE | AUDIO lets through.
VoiceUpdates == {u \in Updates : u.type \in {"voice", "audio"}}

DispatchVoice(t) == Deliver(t, VoiceUpdates)

\* check_authorized_user.inner: the log record written before func is called.
AuthLog(u) == Event("auth_log", u.user)

\* A request of reply that leaves cat_config out.
ReplyMessagesWithoutPersona(message) ==
    <<[role |-> "user", content |-> message]>>

\* The messages argument of the completion call of Catifier.reply.
ReplyMessages(message) ==
    <<cat_config, [role |-> "user", content |-> message]>>

\* The messages argument of the completion call of Catifier.catify.
CatifyMessages(message) ==
    <<cat_config,
      [role |-> "user", content |-> CatifyInstruction],
      [role |-> "user", content |-> CatifyPayload(message)]>>

\* context.bot.send_message(chat_id=..., text=text) is called and awaited.
SendMessage(t, text, tr) ==
    /\ resp' = [resp EXCEPT ![t] = text]
    /\ Suspend(t, "await_send", Append(tr, Event("send_message", text)))
    /\ UNCHANGED <<handle, fs>>

\* CatBot.start
Start(t) ==
    /\ pc[t] = "start" /\ kind[t] = "start"
    /\ SendMessage(t, StartText, trace[t])

\* CatBot.help
Help(t) ==
    /\ pc[t] = "start" /\ kind[t] = "help"
    /\ SendMessage(t, HelpText, trace[t])

\* CatBot.reply up to its await of send_message; Catifier.reply runs inside
\* it and its completion call is synchronous.
Reply(t) ==
    /\ pc[t] = "start" /\ kind[t] = "reply"
    /\ LET message_text == upd[t].text
           logged == Append(trace[t], AuthLog(upd[t]))
           called == Append(logged, Event("completion", ReplyMessages(message_text)))
       IN  IF ~ReSearchMention(message_text)
           THEN Exit(t, "returned", logged, fs)
           ELSE \/ Exit(t, "raised", called, fs)
                \/ \E answer \in Answers : SendMessage(t, answer, called)

\* CatBot.catify up to its await of send_message, Catifier.catify inside it.
Catify(t) ==
    /\ pc[t] = "start" /\ kind[t] = "catify"
    /\ LET message_text == upd[t].text
           logged == Append(trace[t], AuthLog(upd[t]))
           called == Append(logged, Event("completion", CatifyMessages(message_text)))
       IN  \/ Exit(t, "raised", called, fs)
           \/ \E answer \in Answers : SendMessage(t, answer, called)

\* CatBot.generate_image up to the await of the image call in
\* Catifier.generate_image.  The method carries no decorator.
GenerateImage(t) ==
    /\ pc[t] = "start" /\ kind[t] = "generate_image"
    /\ LET prompt == upd[t].text
       IN  Suspend(t, "await_image",
                   Append(trace[t], Event("image", <<prompt, IMAGE_SIZE>>)))
    /\ UNCHANGED <<handle, resp, fs>>

\* The image call returns or raises; on return the templated text is sent.
ImageDone(t) ==
    /\ pc[t] = "await_image"
    /\ \/ Exit(t, "raised", trace[t], fs)
       \/ \E image_url \in ImageUrls :
             SendMessage(t, ImagePrefix \o image_url, trace[t])

\* A result list whose identifier is the title instead of the query.
InlineResultsTitleAsId(query) ==
    << [id |-> InlineTitle,
        title |-> InlineTitle,
        input_message_content |-> query,
        description |-> query,
        thumb_url |-> ThumbUrl] >>

\* The one result CatBot.inline_query builds for a query.
InlineResults(query) ==
    << [id |-> query,
        title |-> InlineTitle,
        input_message_content |-> query,
        description |-> query,
        thumb_url |-> ThumbUrl] >>

\* CatBot.inline_query up to its await of inline_query.answer.
InlineQuery(t) ==
    /\ pc[t] = "start" /\ kind[t] = "inline_query"
    /\ LET query == upd[t].query
       IN  IF query = <<>>
           THEN Exit(t, "returned", trace[t], fs)
           ELSE /\ Suspend(t, "await_answer",
                           Append(trace[t], Event("answer", InlineResults(query))))
                /\ UNCHANGED <<handle, resp, fs>>

\* inline_query.answer returns or raises.
AnswerDone(t) ==
    /\ pc[t] = "await_answer"
    /\ \/ Exit(t, "returned", trace[t], fs)
       \/ Exit(t, "raised", trace[t], fs)

\* ---------------------------------------------------------- voice handler

OggPath(file_id) == <<file_id, "ogg">>
Mp3Path(file_id) == <<file_id, "mp3">>

\* The invocation that created the file at path p: a running task, 0 for an
\* invocation that has exited, -1 when there is no file.
OwnerOf(f, p) == IF f[p].exists THEN f[p].owner ELSE -1

\* Task t writes audio a to path p, replacing what is there.
WriteFile(f, p, t, a) ==
    [f EXCEPT ![p] = [exists |-> TRUE, owner |-> t, audio |-> a]]

\* Path(p).unlink(missing_ok=True)
Unlink(f, p) == [f EXCEPT ![p] = NoFile]

\* CatBot.voice_handler up to its await of get_file.  update.message.voice
\* is None for an audio attachment, and reading its file_id raises.
VoiceHandler(t) ==
    /\ pc[t] = "start" /\ kind[t] = "voice_handler"
    /\ LET logged == Append(trace[t], AuthLog(upd[t]))
       IN  IF upd[t].file_id = None
           THEN Exit(t, "raised", logged, fs)
           ELSE /\ Suspend(t, "await_get_file",
                           Append(logged, Event("get_file", upd[t].file_id)))
                /\ UNCHANGED <<handle, resp, fs>>

\* get_file returns or raises; on return download_to_drive is awaited.
GetFileDone(t) ==
    /\ pc[t] = "await_get_file"
    /\ \/ Exit(t, "raised", trace[t], fs)
       \/ /\ Suspend(t, "await_download",
                     Append(trace[t], Event("download", OggPath(upd[t].file_id))))
          /\ UNCHANGED <<handle, resp, fs>>

\* download_to_drive raises, or writes file_ogg; then lines 133-136 run up to
\* the await inside Catifier.transcribe: the transcode writes file_mp3 or
\* raises, file_mp3 is opened and handed to the transcription call.
DownloadDone(t) ==
    /\ pc[t] = "await_download"
    /\ LET file_id == upd[t].file_id
           file_ogg == OggPath(file_id)
           file_mp3 == Mp3Path(file_id)
           fs1 == WriteFile(fs, file_ogg, t, file_id)
           tr1 == Append(trace[t], Event("write", <<file_ogg, OwnerOf(fs, file_ogg)>>))
           fs2 == WriteFile(fs1, file_mp3, t, fs1[file_ogg].audio)
           tr2 == Append(tr1, Event("write", <<file_mp3, OwnerOf(fs1, file_mp3)>>))
           audio_file == fs2[file_mp3].audio
       IN  \/ Exit(t, "raised", trace[t], fs)
           \/ Exit(t, "raised", tr1, fs1)
           \/ /\ fs' = fs2
              /\ handle' = [handle EXCEPT ![t] = audio_file]
              /\ Suspend(t, "await_transcription",
                         Append(tr2, Event("transcription", audio_file)))
              /\ UNCHANGED resp

\* Catifier.transcribe after its await: the transcription call raises, or its
\* text goes through Catifier.catify, whose completion call is synchronous,
\* and voice_handler awaits send_message.
TranscriptionDone(t) ==
    /\ pc[t] = "await_transcription"
    /\ LET transcript == Transcript(handle[t])
           called == Append(trace[t], Event("completion", CatifyMessages(transcript)))
       IN  \/ Exit(t, "raised", trace[t], fs)
           \/ Exit(t, "raised", called, fs)
           \/ \E cat_transcript \in Answers : SendMessage(t, cat_transcript, called)

\* Lines 141-142 of voice_handler, reached when send_message has returned.
CleanUp(t, tr, f) ==
    LET file_ogg == OggPath(upd[t].file_id)
        file_mp3 == Mp3Path(upd[t].file_id)
        f1 == Unlink(f, file_ogg)
        tr1 == Append(tr, Event("unlink", <<file_ogg, OwnerOf(f, file_ogg)>>))
        f2 == Unlink(f1, file_mp3)
        tr2 == Append(tr1, Event("unlink", <<file_mp3, OwnerOf(f1, file_mp3)>>))
    IN  Exit(t, "returned", tr2, f2)

\* send_message returns or raises; voice_handler then removes its files, the
\* other handlers return.
SendDone(t) ==
    /\ pc[t] = "await_send"
    /\ \/ Exit(t, "raised", trace[t], fs)
       \/ IF kind[t] = "voice_handler"
          THEN CleanUp(t, trace[t], fs)
          ELSE Exit(t, "returned", trace[t], fs)

\* -------------------------------------------------------------- behaviour

\* CatBot.run builds the application without concurrent_updates, so the
\* application awaits the handler of one update before it takes the next: one
\* invocation, task Main, is in flight at a time.
Main == 1

Next ==
    \/ Dispatch(Main)
    \/ Start(Main)
    \/ Help(Main)
    \/ Reply(Main)
    \/ Catify(Main)
    \/ GenerateImage(Main)
    \/ ImageDone(Main)
    \/ InlineQuery(Main)
    \/ AnswerDone(Main)
    \/ VoiceHandler(Main)
    \/ GetFileDone(Main)
    \/ DownloadDone(Main)
    \/ TranscriptionDone(Main)
    \/ SendDone(Main)

Spec == Init /\ [][Next]_vars

\* Handlers of different updates overlapping at their awaits, for the
\* handler that touches the working directory: every task runs voice_handler
\* and the steps of the tasks interleave.
NextOverlap ==
    \E t \in Tasks :
       \/ DispatchVoice(t)
       \/ VoiceHandler(t)
       \/ GetFileDone(t)
       \/ DownloadDone(t)
       \/ TranscriptionDone(t)
       \/ SendDone(t)

SpecOverlap == Init /\ [][NextOverlap]_vars

\* ----------------------------------------------------------------- claims

\* The records of kind e in the trace of task t, in order.
EventsOf(t, e) == SelectSeq(trace[t], LAMBDA x : x.ev = e)

Called(t, e) == EventsOf(t, e) # <<>>

Last(s) == s[Len(s)]

IsVoiceRun(t) == kind[t] = "voice_handler" /\ upd[t].file_id # None

\* C1: whenever an invocation of voice_handler has exited, by return or by an
\* exception, neither <file_id>.ogg nor <file_id>.mp3 exists.
C1_TempFilesRemovedOnEveryExit ==
    \A t \in Tasks :
        (IsVoiceRun(t) /\ pc[t] = "done")
            => /\ ~fs[OggPath(upd[t].file_id)].exists
               /\ ~fs[Mp3Path(upd[t].file_id)].exists

Whitespace == {" ", "\t", "\n"}

RECURSIVE DropToken(_)
DropToken(s) ==
    IF s = <<>> \/ Head(s) \in Whitespace THEN s ELSE DropToken(Tail(s))

RECURSIVE DropWhitespace(_)
DropWhitespace(s) ==
    IF s = <<>> \/ Head(s) \notin Whitespace THEN s ELSE DropWhitespace(Tail(s))

\* The raw text without its leading token and the whitespace after the token.
WithoutCommandToken(r) == DropWhitespace(DropToken(r))

\* C2: the last user message of the completion request of a /catify update
\* is the raw text without the command token and all whitespace following it.
C2_CatifyPayloadIsTextAfterCommand ==
    \A t \in Tasks :
        (kind[t] = "catify" /\ Called(t, "completion"))
            => Last(EventsOf(t, "completion")[1].arg).content
                   = WithoutCommandToken(upd[t].text)

\* The text Catifier.catify is called with by task t.
CatifyArgument(t) ==
    IF kind[t] = "catify" THEN upd[t].text ELSE Transcript(handle[t])

\* C3: catify(t) issues exactly one completion request, of 3 messages: the
\* persona, the fixed instruction as a user message, and a user message whose
\* content is t itself.
C3_CatifySendsThreeMessagesEndingWithText ==
    \A t \in Tasks :
        (kind[t] \in {"catify", "voice_handler"} /\ Called(t, "completion"))
            => /\ Len(EventsOf(t, "completion")) = 1
               /\ EventsOf(t, "completion")[1].arg =
                     << [role |-> "system", content |-> PersonaContent],
                        [role |-> "user", content |-> CatifyInstruction],
                        [role |-> "user", content |-> CatifyArgument(t)] >>

\* C4: the completion request that follows a transcription carries the whole
\* transcript as the content of its last user message, and the text
\* transcribe returns, which voice_handler sends, is the completion's answer.
C4_TranscriptForwardedInFull ==
    \A t \in Tasks :
        (kind[t] = "voice_handler" /\ Called(t, "completion"))
            => /\ Last(EventsOf(t, "completion")[1].arg).content
                     = Transcript(handle[t])
               /\ Called(t, "send_message")
                     => EventsOf(t, "send_message")[1].arg \in Answers

\* The recognized handles, in lower case.
RecognizedHandles == {<<"c", "a", "t", "g", "p", "t">>, <<"j", "i", "n", "x", "t", "h", "e", "c", "a", "t", "b", "o", "t">>}

LowerText(text) == [i \in 1..Len(text) |-> Lower(text[i])]

\* The text holds "@" followed by a recognized handle in any letter case,
\* the handle ending the text or being followed by a non-word character.
ContainsMention(text) ==
    \E i \in 1..Len(text) : \E h \in RecognizedHandles :
        /\ text[i] = "@"
        /\ i + Len(h) <= Len(text)
        /\ SubSeq(LowerText(text), i + 1, i + Len(h)) = h
        /\ (i + Len(h) < Len(text)) => text[i + Len(h) + 1] \notin WordChars

\* C5: once reply has passed its gate, the completion request has been
\* issued exactly when the text mentions the bot, carrying the whole text;
\* without a mention the handler returns with no request, no outbound message
\* and no exception; with one, the answer is sent unless the request raised.
C5_MentionGate ==
    \A t \in Tasks :
        (kind[t] = "reply" /\ pc[t] # "start")
            => /\ Called(t, "completion") <=> ContainsMention(upd[t].text)
               /\ Called(t, "send_message") => ContainsMention(upd[t].text)
               /\ ~ContainsMention(upd[t].text)
                     => /\ pc[t] = "done" /\ outcome[t] = "returned"
                        /\ trace[t] = <<AuthLog(upd[t])>>
               /\ ContainsMention(upd[t].text)
                     => /\ Len(EventsOf(t, "completion")) = 1
                        /\ Last(EventsOf(t, "completion")[1].arg).content = upd[t].text
                        /\ Len(EventsOf(t, "send_message")) <= 1
                        /\ \/ Called(t, "send_message")
                           \/ outcome[t] = "raised" /\ Last(trace[t]).ev = "completion"

C5_Witness ==
    \E t \in Tasks :
        /\ kind[t] = "reply" /\ pc[t] = "done" /\ outcome[t] = "returned"
        /\ upd[t].text = <<"h", "e", "y", " ", "@", "J", "i", "n", "x", "t", "h", "e", "c", "a", "t", "b", "o", "t", " ", "w", "h", "a", "t", "'", "s", " ", "u", "p">>
        /\ Called(t, "completion") /\ Called(t, "send_message")

\* C6: cat_config keeps the value the constructor gave it, every completion
\* request starts with that persona message, and the request of reply is the
\* persona followed by one user message holding the text.
C6_PersonaFirstInEveryRequest ==
    /\ cat_config = [role |-> "system", content |-> PersonaContent]
    /\ \A t \in Tasks : \A i \in 1..Len(EventsOf(t, "completion")) :
          LET messages == EventsOf(t, "completion")[i].arg
          IN  /\ Len(messages) >= 1
              /\ messages[1] = [role |-> "system", content |-> PersonaContent]
              /\ kind[t] = "reply" =>
                    /\ Len(messages) = 2
                    /\ messages[2] = [role |-> "user", content |-> upd[t].text]

C6_Witness ==
    \E t \in Tasks :
        /\ kind[t] = "reply" /\ Called(t, "completion")
        /\ upd[t].text = <<"@", "c", "a", "t", "g", "p", "t">>

\* C7: inline_query answers nothing for an empty query and answers once for
\* a query q, with one result whose id is q, whose title is "Ask CatGPT" and
\* whose message content is q.
C7_InlineAnswersOneEcho ==
    \A t \in Tasks :
        (kind[t] = "inline_query" /\ pc[t] # "start")
            => LET q == upd[t].query
                   answers == EventsOf(t, "answer")
               IN  IF q = <<>>
                   THEN trace[t] = <<>> /\ outcome[t] = "returned"
                   ELSE /\ Len(answers) = 1
                        /\ Len(answers[1].arg) = 1
                        /\ answers[1].arg[1].id = q
                        /\ answers[1].arg[1].title = <<"A", "s", "k", " ", "C", "a", "t", "G", "P", "T">>
                        /\ answers[1].arg[1].input_message_content = q

C7_Witness ==
    \E t \in Tasks :
        /\ kind[t] = "inline_query" /\ pc[t] = "done" /\ outcome[t] = "returned"
        /\ upd[t].query = <<"p", "u", "r", "r">>
        /\ Called(t, "answer")

GatedHandlers == {"reply", "catify", "voice_handler", "generate_image"}

\* C8: in every invocation of reply, catify, voice_handler and
\* generate_image the user's name is logged before anything else the handler
\* does, and the invocation goes on past the gate.
C8_GatedHandlersLogUserFirst ==
    \A t \in Tasks :
        (kind[t] \in GatedHandlers /\ pc[t] # "start")
            => /\ trace[t] # <<>>
               /\ trace[t][1] = Event("auth_log", upd[t].user)

FileEvents(t) == SelectSeq(trace[t], LAMBDA x : x.ev \in {"write", "unlink"})

C10_HandlersCatchFailures ==
    \A t \in Tasks :
        /\ outcome[t] # "raised"
        /\ \A e \in {"completion", "transcription", "image", "get_file",
                     "download", "send_message", "answer"} :
              Len(EventsOf(t, e)) <= 1

====
